---- MODULE Spec2Model ----
(***************************************************************************)
(* A model of go-rss-agg (src/main.go): main, validateConfig,              *)
(* aggregateFeeds with its fan-out of fetch goroutines, readURLsFromFile   *)
(* and outputFeed.                                                         *)
(*                                                                         *)
(* Strings that the program inspects character by character (the lines of  *)
(* the input file, URLs) are sequences of one-character strings.  Error    *)
(* messages are sequences of words, so that "the message contains ..." is  *)
(* a computation and not an equality.                                      *)
(***************************************************************************)
EXTENDS Integers, Sequences, FiniteSets, Bags, TLC

VARIABLES
    config,      \* the Config built by main from the flags
    file,        \* the input file on disk: [status, lines]
    pc,          \* position of the main goroutine
    cfgErr,      \* what validateConfig returned to main (Pending before the call)
    aggErr,      \* the error aggregateFeeds returned (Nil when none)
    urls,        \* aggregateFeeds: urls
    next,        \* aggregateFeeds: index of the next range iteration
    wg,          \* aggregateFeeds: the WaitGroup counter
    mu,          \* aggregateFeeds: the Mutex holder (0 when unlocked)
    allItems,    \* aggregateFeeds: allItems
    tpc,         \* position of each fetch goroutine
    tres,        \* per call of fetchFeedItems: "pending", "ok" or "err"
    titems,      \* per call of fetchFeedItems: items
    tsnap,       \* per goroutine: the allItems its append has read
    appended,    \* history: allItems as it was handed to sort.Slice
    feed,        \* the *feeds.Feed aggregateFeeds returned (NoFeed when nil)
    fetchLog,    \* history: bag of the URLs handed to rss.Fetch
    fileOpened,  \* history: os.Open was called on the input file
    outFile      \* the output file: "untouched", "truncated" or "written"

vars == <<config, file, pc, cfgErr, aggErr, urls, next, wg, mu, allItems,
          tpc, tres, titems, tsnap, appended, feed, fetchLog, fileOpened, outFile>>

----------------------------------------------------------------------------
(* Bounds *)

MaxLines   == 2   \* lines of the input file
MaxLineLen == 2   \* characters of a line (URL-file parsing)
MaxCount   == 2   \* -count ranges over -1..MaxCount

Nil     == <<>>             \* the nil error (no words)
Pending == <<"pending">>    \* validateConfig has not been called yet
NoFeed  == [nil |-> TRUE]   \* the nil *feeds.Feed

----------------------------------------------------------------------------
(* strings *)

Whitespace == {" ", "\t"}

RECURSIVE TrimLeft(_)
TrimLeft(s) ==
    IF s = <<>> THEN s
    ELSE IF Head(s) \in Whitespace THEN TrimLeft(Tail(s)) ELSE s

RECURSIVE TrimRight(_)
TrimRight(s) ==
    IF s = <<>> THEN s
    ELSE IF s[Len(s)] \in Whitespace THEN TrimRight(SubSeq(s, 1, Len(s) - 1)) ELSE s

TrimSpace(s) == TrimRight(TrimLeft(s))

HasPrefix(s, p) == Len(s) >= Len(p) /\ SubSeq(s, 1, Len(p)) = p

\* strings.Contains on word sequences
Contains(s, sub) ==
    \E k \in 0..(Len(s) - Len(sub)) : SubSeq(s, k + 1, k + Len(sub)) = sub

----------------------------------------------------------------------------
(* validateConfig *)

ModeMsg   == <<"mode", "must", "be", "'single'", "or", "'all'">>
SingleMsg == <<"single-url", "must", "be", "provided", "when", "mode", "is", "'single'">>
InputMsg  == <<"input", "file", "must", "be", "provided", "when", "mode", "is", "'all'">>
CountMsg  == <<"count", "must", "be", "greater", "than", "0">>

\* faulty variant: the count check written as Count < 0
validateConfigStrict(c) ==
    IF c.Mode # "single" /\ c.Mode # "all" THEN ModeMsg
    ELSE IF c.Mode = "single" /\ c.SingleURL = <<>> THEN SingleMsg
    ELSE IF c.Mode # "single" /\ c.InputFile = "" THEN InputMsg
    ELSE IF c.Count < 0 THEN CountMsg
    ELSE Nil

validateConfig(c) ==
    IF c.Mode # "single" /\ c.Mode # "all" THEN ModeMsg
    ELSE IF c.Mode = "single" /\ c.SingleURL = <<>> THEN SingleMsg
    ELSE IF c.Mode # "single" /\ c.InputFile = "" THEN InputMsg
    ELSE IF c.Count <= 0 THEN CountMsg
    ELSE Nil

----------------------------------------------------------------------------
(* readURLsFromFile *)

OpenErrMsg == <<"error", "opening", "file:">>
ReadErrMsg == <<"error", "reading", "file:">>

\* faulty variant: the '#' test left out
keepLineNoComment(line) == line # <<>>

\* the test of the scan loop on the trimmed line
keepLine(line) == line # <<>> /\ ~HasPrefix(line, <<"#">>)

\* one iteration of the scan loop: urls after scanner.Text() = text
scanLine(acc, text) ==
    LET line == TrimSpace(text)
    IN  IF keepLine(line) THEN Append(acc, line) ELSE acc

RECURSIVE scanFrom(_, _, _)
scanFrom(lines, k, acc) ==
    IF k > Len(lines) THEN acc
    ELSE scanFrom(lines, k + 1, scanLine(acc, lines[k]))

readURLsFromFile(f) ==
    IF f.status = "noent" THEN [urls |-> <<>>, err |-> OpenErrMsg]
    ELSE IF f.status = "ioerr" THEN [urls |-> <<>>, err |-> ReadErrMsg]
    ELSE [urls |-> scanFrom(f.lines, 1, <<>>), err |-> Nil]

----------------------------------------------------------------------------
(* fetchFeedItems: what a fetch can return *)

\* the publication dates of the items of the feeds a server may serve, in
\* the order the feed lists them: no item, one item, two items oldest first
\* (as the feeds of the tests are)
FeedDates == { <<>>, <<3>>, <<1, 2>> }

\* the items fetchFeedItems builds from a feed, for fetch src (1 in single
\* mode); src and idx stand for the title and link that tell items apart
Bodies(src) ==
    { [k \in DOMAIN ds |-> [src |-> src, idx |-> k, Created |-> ds[k]]] : ds \in FeedDates }

----------------------------------------------------------------------------
(* sort.Slice and the truncation *)

\* faulty variant: Before instead of After
lessBefore(a, b) == a.Created < b.Created

\* the less function handed to sort.Slice: allItems[i].Created.After(allItems[j].Created)
less(a, b) == a.Created > b.Created

Remove(s, i) == SubSeq(s, 1, i - 1) \o SubSeq(s, i + 1, Len(s))

\* faulty variant: the slice left as it was appended
SortOutcomesUnsorted(s) == {s}

\* faulty variant: the slice rearranged without regard to less
RECURSIVE SortOutcomesShuffled(_)
SortOutcomesShuffled(s) ==
    IF s = <<>> THEN {<<>>}
    ELSE UNION { { <<s[i]>> \o r : r \in SortOutcomesShuffled(Remove(s, i)) } : i \in DOMAIN s }

\* sort.Slice is not stable: every permutation in which no element is less
\* than one placed before it is a possible outcome
RECURSIVE SortOutcomes(_)
SortOutcomes(s) ==
    IF s = <<>> THEN {<<>>}
    ELSE UNION { { <<s[i]>> \o r : r \in SortOutcomes(Remove(s, i)) } :
                   i \in { i \in DOMAIN s : \A j \in DOMAIN s : ~less(s[j], s[i]) } }

\* faulty variant: the tail kept instead of the head
truncateTail(items, count) ==
    IF Len(items) > count THEN SubSeq(items, Len(items) - count + 1, Len(items)) ELSE items

\* if len(allItems) > config.Count { allItems = allItems[:config.Count] }
truncate(items, count) ==
    IF Len(items) > count THEN SubSeq(items, 1, count) ELSE items

----------------------------------------------------------------------------
(* the inputs of a run *)

Modes      == {"single", "all", "bogus"}
SingleURLs == {<<>>, <<"a">>}
InputFiles == {"", "feeds.txt"}
Counts     == (-1)..MaxCount

Configs == [Mode : Modes, SingleURL : SingleURLs, InputFile : InputFiles, Count : Counts]

RECURSIVE SeqsUpTo(_, _)
SeqsUpTo(S, n) ==
    IF n = 0 THEN {<<>>}
    ELSE LET shorter == SeqsUpTo(S, n - 1)
         IN  shorter \cup { Append(s, x) : s \in { t \in shorter : Len(t) = n - 1 }, x \in S }

\* the lines of the files of a full run: two URLs and a comment
RunLines == { <<"a">>, <<"b">>, <<"#", "a">> }
RunFiles == { [status |-> "ok", lines |-> ls] : ls \in SeqsUpTo(RunLines, MaxLines) }
                \cup { [status |-> st, lines |-> <<>>] : st \in {"noent", "ioerr"} }

\* the files of the parsing runs: every line over the alphabet
Alphabet   == {" ", "#", "a"}
ParseLines == SeqsUpTo(Alphabet, MaxLineLen)
ParseFiles == { [status |-> "ok", lines |-> ls] : ls \in SeqsUpTo(ParseLines, MaxLines) }

Title == "RSS Aggregator Feed"

InitRest ==
    /\ cfgErr = Pending
    /\ aggErr = Nil
    /\ urls = <<>>
    /\ next = 0
    /\ wg = 0
    /\ mu = 0
    /\ allItems = <<>>
    /\ tpc = <<>>
    /\ tres = <<>>
    /\ titems = <<>>
    /\ tsnap = <<>>
    /\ appended = <<>>
    /\ feed = NoFeed
    /\ fetchLog = EmptyBag
    /\ fileOpened = FALSE
    /\ outFile = "untouched"

Init ==
    /\ config \in Configs
    /\ file \in RunFiles
    /\ pc = "validate"
    /\ InitRest

----------------------------------------------------------------------------
(* main *)

\* faulty variant: log.Printf instead of log.Fatalf
ValidateNoExit ==
    /\ pc = "validate"
    /\ cfgErr' = validateConfig(config)
    /\ pc' = "aggregate"
    /\ UNCHANGED <<config, file, tsnap, appended, aggErr, urls, next, wg, mu, allItems, tpc, tres,
                   titems, feed, fetchLog, fileOpened, outFile>>

Validate ==
    /\ pc = "validate"
    /\ cfgErr' = validateConfig(config)
    /\ pc' = IF cfgErr' # Nil THEN "exit1" ELSE "aggregate"
    /\ UNCHANGED <<config, file, tsnap, appended, aggErr, urls, next, wg, mu, allItems, tpc, tres,
                   titems, feed, fetchLog, fileOpened, outFile>>

\* outputFeed and the end of main; o is what the rendering and the file system do
Output ==
    /\ pc = "output"
    /\ \E o \in {"rss_err", "create_err", "write_err", "ok"} :
         /\ outFile' = CASE o = "write_err" -> "truncated"
                         [] o = "ok"        -> "written"
                         [] OTHER           -> outFile
         /\ pc' = IF o = "ok" THEN "exit0" ELSE "exit1"
    /\ UNCHANGED <<config, file, tsnap, appended, cfgErr, aggErr, urls, next, wg, mu, allItems, tpc,
                   tres, titems, feed, fetchLog, fileOpened>>

----------------------------------------------------------------------------
(* aggregateFeeds, single mode *)

SingleErrMsg == <<"error", "fetching", "single", "feed:">>

\* faulty variant: the error of the fetch dropped
SingleFetchFailIgnored ==
    /\ pc = "aggregate"
    /\ config.Mode = "single"
    /\ fetchLog' = fetchLog (+) SetToBag({config.SingleURL})
    /\ tres' = <<"err">>
    /\ titems' = <<Nil>>
    /\ pc' = "merging"
    /\ UNCHANGED <<config, file, tsnap, appended, cfgErr, aggErr, urls, next, wg, mu, allItems, tpc,
                   feed, fileOpened, outFile>>

\* fetchFeedItems(config.SingleURL) returns an error: aggregateFeeds returns
\* (nil, err) and main ends in log.Fatalf
SingleFetchFail ==
    /\ pc = "aggregate"
    /\ config.Mode = "single"
    /\ fetchLog' = fetchLog (+) SetToBag({config.SingleURL})
    /\ tres' = <<"err">>
    /\ titems' = <<Nil>>
    /\ aggErr' = SingleErrMsg
    /\ feed' = NoFeed
    /\ pc' = "exit1"
    /\ UNCHANGED <<config, file, tsnap, appended, cfgErr, urls, next, wg, mu, allItems, tpc,
                   fileOpened, outFile>>

\* fetchFeedItems(config.SingleURL) returns items: allItems = items
SingleFetchOK ==
    /\ pc = "aggregate"
    /\ config.Mode = "single"
    /\ fetchLog' = fetchLog (+) SetToBag({config.SingleURL})
    /\ \E items \in Bodies(1) :
         /\ titems' = <<items>>
         /\ allItems' = items
    /\ tres' = <<"ok">>
    /\ pc' = "merging"
    /\ UNCHANGED <<config, file, tsnap, appended, cfgErr, aggErr, urls, next, wg, mu, tpc,
                   feed, fileOpened, outFile>>

----------------------------------------------------------------------------
(* aggregateFeeds, all mode *)

InputErrMsg == <<"error", "reading", "input", "file:">>

ReadURLs ==
    /\ pc = "aggregate"
    /\ config.Mode # "single"
    /\ fileOpened' = TRUE
    /\ LET r == readURLsFromFile(file)
       IN  IF r.err # Nil
           THEN /\ aggErr' = InputErrMsg \o r.err
                /\ pc' = "exit1"
                /\ UNCHANGED <<urls, next, tpc, tres, titems, tsnap>>
           ELSE /\ urls' = r.urls
                /\ next' = 1
                /\ tpc' = [i \in DOMAIN r.urls |-> "unborn"]
                /\ tres' = [i \in DOMAIN r.urls |-> "pending"]
                /\ titems' = [i \in DOMAIN r.urls |-> <<>>]
                /\ tsnap' = [i \in DOMAIN r.urls |-> <<>>]
                /\ pc' = "loop"
                /\ UNCHANGED aggErr
    /\ UNCHANGED <<config, file, appended, cfgErr, wg, mu, allItems, feed, fetchLog, outFile>>

\* one iteration of the range loop: wg.Add(1); go func(url)
Spawn ==
    /\ pc = "loop"
    /\ next <= Len(urls)
    /\ wg' = wg + 1
    /\ tpc' = [tpc EXCEPT ![next] = "fetch"]
    /\ next' = next + 1
    /\ UNCHANGED <<config, file, tsnap, appended, pc, cfgErr, aggErr, urls, mu, allItems, tres, titems,
                   feed, fetchLog, fileOpened, outFile>>

\* faulty variant: no wait for the goroutines
WaitNoBarrier ==
    /\ pc = "loop"
    /\ next > Len(urls)
    /\ pc' = "merging"
    /\ UNCHANGED <<config, file, tsnap, appended, cfgErr, aggErr, urls, next, wg, mu, allItems, tpc,
                   tres, titems, feed, fetchLog, fileOpened, outFile>>

\* the loop has ended and wg.Wait() returns
Wait ==
    /\ pc = "loop"
    /\ next > Len(urls)
    /\ wg = 0
    /\ pc' = "merging"
    /\ UNCHANGED <<config, file, tsnap, appended, cfgErr, aggErr, urls, next, wg, mu, allItems, tpc,
                   tres, titems, feed, fetchLog, fileOpened, outFile>>

\* goroutine i: fetchFeedItems(strings.TrimSpace(url)) returns items
FetchOK(i) ==
    /\ tpc[i] = "fetch"
    /\ fetchLog' = fetchLog (+) SetToBag({TrimSpace(urls[i])})
    /\ \E items \in Bodies(i) : titems' = [titems EXCEPT ![i] = items]
    /\ tres' = [tres EXCEPT ![i] = "ok"]
    /\ tpc' = [tpc EXCEPT ![i] = "lock"]
    /\ UNCHANGED <<config, file, tsnap, appended, pc, cfgErr, aggErr, urls, next, wg, mu, allItems,
                   feed, fileOpened, outFile>>

\* faulty variant: the error of one feed made the error of the run
FetchFailPoisons(i) ==
    /\ tpc[i] = "fetch"
    /\ fetchLog' = fetchLog (+) SetToBag({TrimSpace(urls[i])})
    /\ tres' = [tres EXCEPT ![i] = "err"]
    /\ tpc' = [tpc EXCEPT ![i] = "return"]
    /\ aggErr' = SingleErrMsg
    /\ UNCHANGED <<config, file, tsnap, appended, pc, cfgErr, urls, next, wg, mu, allItems,
                   titems, feed, fileOpened, outFile>>

\* faulty variant: a failed fetch tried again
FetchFailRetries(i) ==
    /\ tpc[i] = "fetch"
    /\ fetchLog' = fetchLog (+) SetToBag({TrimSpace(urls[i])})
    /\ IF CopiesIn(TrimSpace(urls[i]), fetchLog) < Len(urls)
       THEN UNCHANGED <<tres, tpc>>
       ELSE /\ tres' = [tres EXCEPT ![i] = "err"]
            /\ tpc' = [tpc EXCEPT ![i] = "return"]
    /\ UNCHANGED <<config, file, tsnap, appended, pc, cfgErr, aggErr, urls, next, wg, mu, allItems,
                   titems, feed, fileOpened, outFile>>

\* faulty variant: wg.Done() not deferred, and missed on the error path
FetchFailNoDone(i) ==
    /\ tpc[i] = "fetch"
    /\ fetchLog' = fetchLog (+) SetToBag({TrimSpace(urls[i])})
    /\ tres' = [tres EXCEPT ![i] = "err"]
    /\ tpc' = [tpc EXCEPT ![i] = "done"]
    /\ UNCHANGED <<config, file, tsnap, appended, pc, cfgErr, aggErr, urls, next, wg, mu, allItems,
                   titems, feed, fileOpened, outFile>>

\* goroutine i: fetchFeedItems returns an error; the warning is logged and the
\* function returns
FetchFail(i) ==
    /\ tpc[i] = "fetch"
    /\ fetchLog' = fetchLog (+) SetToBag({TrimSpace(urls[i])})
    /\ tres' = [tres EXCEPT ![i] = "err"]
    /\ tpc' = [tpc EXCEPT ![i] = "return"]
    /\ UNCHANGED <<config, file, tsnap, appended, pc, cfgErr, aggErr, urls, next, wg, mu, allItems,
                   titems, feed, fileOpened, outFile>>

\* faulty variant: the append not guarded by the mutex
LockNoMutex(i) ==
    /\ tpc[i] = "lock"
    /\ mu' = i
    /\ tpc' = [tpc EXCEPT ![i] = "read"]
    /\ UNCHANGED <<config, file, tsnap, appended, pc, cfgErr, aggErr, urls, next, wg,
                   allItems, tres, titems, feed, fetchLog, fileOpened, outFile>>

\* goroutine i: mu.Lock()
Lock(i) ==
    /\ tpc[i] = "lock"
    /\ mu = 0
    /\ mu' = i
    /\ tpc' = [tpc EXCEPT ![i] = "read"]
    /\ UNCHANGED <<config, file, tsnap, appended, pc, cfgErr, aggErr, urls, next, wg,
                   allItems, tres, titems, feed, fetchLog, fileOpened, outFile>>

\* goroutine i: append(allItems, items...) reads the shared slice allItems
ReadItems(i) ==
    /\ tpc[i] = "read"
    /\ tsnap' = [tsnap EXCEPT ![i] = allItems]
    /\ tpc' = [tpc EXCEPT ![i] = "append"]
    /\ UNCHANGED <<config, file, appended, pc, cfgErr, aggErr, urls, next, wg, mu,
                   allItems, tres, titems, feed, fetchLog, fileOpened, outFile>>

\* goroutine i: allItems = append(...): the slice it read, with items after
\* it, is stored in allItems
AppendItems(i) ==
    /\ tpc[i] = "append"
    /\ allItems' = tsnap[i] \o titems[i]
    /\ tsnap' = [tsnap EXCEPT ![i] = <<>>]
    /\ tpc' = [tpc EXCEPT ![i] = "unlock"]
    /\ UNCHANGED <<config, file, appended, pc, cfgErr, aggErr, urls, next, wg, mu,
                   tres, titems, feed, fetchLog, fileOpened, outFile>>

\* goroutine i: mu.Unlock()
Unlock(i) ==
    /\ tpc[i] = "unlock"
    /\ mu' = 0
    /\ tpc' = [tpc EXCEPT ![i] = "return"]
    /\ UNCHANGED <<config, file, tsnap, appended, pc, cfgErr, aggErr, urls, next, wg, allItems, tres,
                   titems, feed, fetchLog, fileOpened, outFile>>

\* goroutine i returns: the deferred wg.Done()
Return(i) ==
    /\ tpc[i] = "return"
    /\ wg' = wg - 1
    /\ tpc' = [tpc EXCEPT ![i] = "done"]
    /\ UNCHANGED <<config, file, tsnap, appended, pc, cfgErr, aggErr, urls, next, mu, allItems, tres,
                   titems, feed, fetchLog, fileOpened, outFile>>

\* after the barrier (and after the fetch in single mode): sort.Slice, the
\* truncation, the feed built and returned.  allItems[:config.Count] with a
\* negative count is a run-time panic.
Merge ==
    /\ pc = "merging"
    /\ IF config.Count < 0
       THEN /\ pc' = "panic"
            /\ UNCHANGED <<allItems, appended, feed>>
       ELSE /\ appended' = allItems
            /\ \E sorted \in SortOutcomes(allItems) :
                 allItems' = truncate(sorted, config.Count)
            /\ feed' = [Title |-> Title, Items |-> allItems']
            /\ pc' = "output"
    /\ UNCHANGED <<config, file, tsnap, cfgErr, aggErr, urls, next, wg, mu, tpc, tres, titems,
                   fetchLog, fileOpened, outFile>>

----------------------------------------------------------------------------
(* specifications *)

Tasks == DOMAIN tpc

Next ==
    \/ Validate
    \/ SingleFetchOK
    \/ SingleFetchFail
    \/ ReadURLs
    \/ Spawn
    \/ \E i \in Tasks : FetchOK(i)
    \/ \E i \in Tasks : FetchFail(i)
    \/ \E i \in Tasks : Lock(i)
    \/ \E i \in Tasks : ReadItems(i)
    \/ \E i \in Tasks : AppendItems(i)
    \/ \E i \in Tasks : Unlock(i)
    \/ \E i \in Tasks : Return(i)
    \/ Wait
    \/ Merge
    \/ Output

Spec == Init /\ [][Next]_vars

\* the files of the parsing runs, read by a run that has passed validation
InitParse ==
    /\ config = [Mode |-> "all", SingleURL |-> <<>>, InputFile |-> "feeds.txt", Count |-> 1]
    /\ file \in ParseFiles
    /\ pc = "aggregate"
    /\ cfgErr = Nil
    /\ aggErr = Nil
    /\ urls = <<>>
    /\ next = 0
    /\ wg = 0
    /\ mu = 0
    /\ allItems = <<>>
    /\ tpc = <<>>
    /\ tres = <<>>
    /\ titems = <<>>
    /\ tsnap = <<>>
    /\ appended = <<>>
    /\ feed = NoFeed
    /\ fetchLog = EmptyBag
    /\ fileOpened = FALSE
    /\ outFile = "untouched"

NextParse == ReadURLs

SpecParse == InitParse /\ [][NextParse]_vars

\* aggregateFeeds in all mode: the runs of an accepted all-mode config, up to
\* the return of aggregateFeeds.  The count is only read after the barrier
\* and has no part in the progress of the fan-out; it is fixed here.
InitAll ==
    /\ config = [Mode |-> "all", SingleURL |-> <<>>, InputFile |-> "feeds.txt",
                 Count |-> MaxCount]
    /\ file \in RunFiles
    /\ pc = "validate"
    /\ InitRest

NextAll ==
    \/ Validate
    \/ ReadURLs
    \/ Spawn
    \/ \E i \in Tasks : FetchOK(i)
    \/ \E i \in Tasks : FetchFail(i)
    \/ \E i \in Tasks : Lock(i)
    \/ \E i \in Tasks : ReadItems(i)
    \/ \E i \in Tasks : AppendItems(i)
    \/ \E i \in Tasks : Unlock(i)
    \/ \E i \in Tasks : Return(i)
    \/ Wait
    \/ Merge

\* The run does not stop while a step is possible: the Go scheduler runs a
\* runnable goroutine, and every dispatched fetch returns (FetchOK or
\* FetchFail), which is the hypothesis of the termination claim.
Fairness == WF_vars(NextAll)

LiveSpec == InitAll /\ [][NextAll]_vars /\ Fairness

----------------------------------------------------------------------------
(* the state of the aggregator, read off the position of main *)

AllMode == config.Mode = "all"

\* validateConfig accepted the config and aggregateFeeds has returned
AggReturned == pc \in {"output", "exit0"} \/ (pc = "exit1" /\ cfgErr = Nil)

AggState ==
    CASE pc \in {"validate", "aggregate"} -> "Idle"
      [] pc = "loop"                      -> "Fetching"
      [] pc = "merging"                   -> "Merging"
      [] pc \in {"output", "exit0"}       -> "Done"
      [] pc = "panic"                     -> "Panic"
      [] pc = "exit1" /\ feed # NoFeed    -> "Done"
      [] pc = "exit1" /\ feed = NoFeed /\ cfgErr # Nil -> "Idle"
      [] OTHER                            -> "Failed"

\* the fetches that returned items, and what they returned
OkFetches == { i \in DOMAIN tres : tres[i] = "ok" }
Fetched   == UNION { { titems[i][k] : k \in DOMAIN titems[i] } : i \in OkFetches }

RECURSIVE SumLen(_, _)
SumLen(f, S) ==
    IF S = {} THEN 0
    ELSE LET i == CHOOSE x \in S : TRUE IN Len(f[i]) + SumLen(f, S \ {i})

TotalFetched == SumLen(titems, OkFetches)

Min(a, b) == IF a < b THEN a ELSE b

----------------------------------------------------------------------------
(* Claims *)

ItemsOf(f) == { f.Items[k] : k \in DOMAIN f.Items }

\* C1: in all mode with a readable input file, whatever fetches fail and in
\* whatever order the goroutines run, aggregateFeeds does not fail: no error
\* is ever set and no panic occurs, and once it has returned there is a feed
\* whose item count is at most config.Count and at most the number of items
\* the successful fetches returned.
C1_AllModeTolerant ==
    (AllMode /\ file.status = "ok") =>
        /\ aggErr = Nil
        /\ pc # "panic"
        /\ AggReturned =>
             /\ feed # NoFeed
             /\ Len(feed.Items) <= config.Count
             /\ Len(feed.Items) <= TotalFetched

C1_Witness ==
    /\ AllMode /\ file.status = "ok" /\ pc = "output"
    /\ \E i, j \in DOMAIN tres : tres[i] = "err" /\ tres[j] = "ok" /\ titems[j] # <<>>
    /\ Len(feed.Items) > 0

\* C2: whenever aggregateFeeds has returned a feed (either mode), its items
\* are sorted by Created, non-increasing.
C2_SortedDescending ==
    feed # NoFeed =>
        \A k \in 1..(Len(feed.Items) - 1) :
            feed.Items[k].Created >= feed.Items[k + 1].Created

C2_Witness ==
    /\ feed # NoFeed
    /\ Len(feed.Items) >= 2
    /\ feed.Items[1].Created > feed.Items[2].Created
    /\ \E i \in OkFetches :
         /\ Len(titems[i]) = 2
         /\ titems[i][1].Created < titems[i][2].Created
         /\ feed.Items[1] = titems[i][2]
         /\ feed.Items[2] = titems[i][1]

\* C3: truncation law.  With N items returned by the successful fetches and
\* config.Count = k > 0, the returned feed holds exactly min(N, k) items, all
\* of them fetched items and no item twice, and no fetched item left out of
\* the feed is strictly later than an item kept in it.
C3_TruncationLaw ==
    (feed # NoFeed /\ config.Count > 0) =>
        /\ Len(feed.Items) = Min(TotalFetched, config.Count)
        /\ ItemsOf(feed) \subseteq Fetched
        /\ Cardinality(ItemsOf(feed)) = Len(feed.Items)
        /\ \A x \in Fetched \ ItemsOf(feed) : \A y \in ItemsOf(feed) :
               ~(x.Created > y.Created)

C3_Witness ==
    /\ feed # NoFeed
    /\ TotalFetched > config.Count
    /\ Len(feed.Items) = config.Count
    /\ \E x \in Fetched \ ItemsOf(feed) : \E y \in ItemsOf(feed) : x.Created < y.Created
    /\ \E x \in Fetched \ ItemsOf(feed) : \E y \in ItemsOf(feed) : x.Created = y.Created

\* C4: full barrier in all mode.  Whenever the aggregator is in Merging or
\* Done, every URL has been dispatched and every dispatched goroutine has
\* finished: it failed, or it appended its items and released the mutex.
C4_FullBarrier ==
    (AllMode /\ AggState \in {"Merging", "Done"}) =>
        /\ next > Len(urls)
        /\ wg = 0
        /\ mu = 0
        /\ \A i \in Tasks : tpc[i] = "done" /\ tres[i] \in {"ok", "err"}
        /\ AggState = "Merging" =>
             /\ Len(allItems) = TotalFetched
             /\ { allItems[k] : k \in DOMAIN allItems } = Fetched

C4_Witness ==
    /\ AllMode /\ pc = "merging"
    /\ Len(urls) = MaxLines
    /\ \E i, j \in Tasks : tres[i] = "err" /\ tres[j] = "ok" /\ titems[j] # <<>>

\* C5: in single mode a failed fetch makes aggregateFeeds return an error and
\* no feed; the run ends with a failure status, outputFeed is not called and
\* the output file is left untouched.
C5_SingleFetchFatal ==
    (config.Mode = "single" /\ tres = <<"err">>) =>
        /\ aggErr # Nil
        /\ feed = NoFeed
        /\ pc = "exit1"
        /\ outFile = "untouched"

C5_Witness ==
    /\ config.Mode = "single" /\ tres = <<"err">>
    /\ pc = "exit1"
    /\ Contains(aggErr, <<"error", "fetching", "single", "feed:">>)

\* the conditions claim C6 names, on the config of the run
BadMode      == config.Mode \notin {"single", "all"}
MissingURL   == config.Mode = "single" /\ config.SingleURL = <<>>
MissingInput == config.Mode = "all" /\ config.InputFile = ""
BadCount     == config.Count <= 0

\* C6 as stated: every one of the four conditions, whenever it holds, shows in
\* the error validateConfig returns, and there is no error exactly when none
\* holds.
C6_EveryConditionReported ==
    cfgErr # Pending =>
        /\ BadMode => Contains(cfgErr, <<"mode", "must", "be", "'single'", "or", "'all'">>)
        /\ MissingURL => Contains(cfgErr, <<"single-url", "must", "be", "provided">>)
        /\ MissingInput => Contains(cfgErr, <<"input", "file", "must", "be", "provided">>)
        /\ BadCount => Contains(cfgErr, <<"count", "must", "be", "greater", "than", "0">>)
        /\ cfgErr = Nil <=> ~(BadMode \/ MissingURL \/ MissingInput \/ BadCount)

\* C6, amended: validateConfig reports the first failing check only.  The
\* mode, single-url and input-file errors are returned whenever their
\* condition holds; the count error is returned whenever count <= 0 and the
\* mode is valid and the field the mode requires is present; there is no
\* error exactly when none of the four conditions holds.
C6_FirstConditionReported ==
    cfgErr # Pending =>
        /\ BadMode => Contains(cfgErr, <<"mode", "must", "be", "'single'", "or", "'all'">>)
        /\ MissingURL => Contains(cfgErr, <<"single-url", "must", "be", "provided">>)
        /\ MissingInput => Contains(cfgErr, <<"input", "file", "must", "be", "provided">>)
        /\ (BadCount /\ ~(BadMode \/ MissingURL \/ MissingInput)) =>
               Contains(cfgErr, <<"count", "must", "be", "greater", "than", "0">>)
        /\ (BadCount /\ (BadMode \/ MissingURL \/ MissingInput)) =>
               ~Contains(cfgErr, <<"count", "must", "be", "greater", "than", "0">>)
        /\ cfgErr = Nil <=> ~(BadMode \/ MissingURL \/ MissingInput \/ BadCount)

C6_Witness ==
    /\ pc = "exit1"
    /\ BadCount /\ ~(BadMode \/ MissingURL \/ MissingInput)
    /\ config.Count = 0
    /\ Contains(cfgErr, <<"count", "must", "be", "greater", "than", "0">>)

\* C7: a configuration error comes before any network activity.  In a run
\* whose config validateConfig rejects, no fetch is made, no goroutine is
\* dispatched, the input file is not opened and the output file is not
\* touched; and whenever a fetch has been made or the input file opened,
\* validateConfig has returned nil before.
C7_ConfigErrorFirst ==
    /\ (BadMode \/ MissingURL \/ MissingInput \/ BadCount) =>
          /\ fetchLog = EmptyBag
          /\ tres = <<>>
          /\ tpc = <<>>
          /\ ~fileOpened
          /\ outFile = "untouched"
          /\ pc \in {"validate", "exit1"}
    /\ (fetchLog # EmptyBag \/ fileOpened \/ outFile # "untouched") => cfgErr = Nil

C7_Witness ==
    /\ pc = "exit1"
    /\ cfgErr \notin {Nil, Pending}
    /\ AllMode /\ BadCount
    /\ file.status = "ok" /\ file.lines # <<>>
    /\ fetchLog = EmptyBag

\* what URL-file parsing is to return, said of the lines themselves
Ink(l)      == { i \in DOMAIN l : l[i] \notin Whitespace }
FirstInk(l) == CHOOSE i \in Ink(l) : \A j \in Ink(l) : i <= j
LastInk(l)  == CHOOSE i \in Ink(l) : \A j \in Ink(l) : i >= j
Included(l) == Ink(l) # {} /\ l[FirstInk(l)] # "#"
Core(l)     == SubSeq(l, FirstInk(l), LastInk(l))
Kept        == { i \in DOMAIN file.lines : Included(file.lines[i]) }

\* C8: readURLsFromFile returns, in file order, exactly the trimmed text of
\* the lines that after trimming are non-empty and do not start with '#': as
\* many URLs as such lines, the k-th URL being the trimmed text of the k-th
\* such line; no URL is blank, starts with '#' or carries outer whitespace;
\* and parsing the same content again gives the same sequence.
C8_ParsedURLs ==
    pc = "loop" =>
        /\ Len(urls) = Cardinality(Kept)
        /\ \A i \in Kept : urls[Cardinality({ j \in Kept : j <= i })] = Core(file.lines[i])
        /\ \A k \in DOMAIN urls :
              /\ urls[k] # <<>>
              /\ urls[k][1] \notin Whitespace \cup {"#"}
              /\ urls[k][Len(urls[k])] \notin Whitespace
        /\ readURLsFromFile(file).urls = urls

C8_Witness ==
    /\ pc = "loop"
    /\ Len(file.lines) = MaxLines
    /\ \E i \in DOMAIN file.lines : file.lines[i] = <<" ", "#">>
    /\ \E i \in DOMAIN file.lines : file.lines[i] = <<"a", " ">>
    /\ urls = << <<"a">> >>

\* how often the URL list holds u, and how often u was fetched
Occurrences(u) == Cardinality({ i \in DOMAIN urls : TrimSpace(urls[i]) = u })
FetchesOf(u)   == CopiesIn(u, fetchLog)

\* C9 as stated: in all mode every URL of the list is fetched exactly once in
\* the run (also a URL that is on several lines), never more than once; in
\* single mode exactly one fetch is made.
C9_OncePerURL ==
    /\ \A u \in BagToSet(fetchLog) : FetchesOf(u) <= 1
    /\ (AllMode /\ AggState \in {"Merging", "Done"}) =>
           \A i \in DOMAIN urls : FetchesOf(urls[i]) = 1
    /\ (config.Mode = "single" /\ AggReturned) => BagCardinality(fetchLog) = 1

\* C9, amended: one fetch per entry of the URL list.  In all mode a URL is
\* never fetched more often than the list holds it, and once the barrier is
\* passed it has been fetched exactly as often as the list holds it (a URL on
\* n lines of the file is fetched n times); a failed fetch is not retried.
\* In single mode exactly one fetch, of config.SingleURL, is made.
C9_OncePerEntry ==
    /\ AllMode =>
          /\ \A u \in BagToSet(fetchLog) : FetchesOf(u) <= Occurrences(u)
          /\ BagCardinality(fetchLog) = Cardinality({ i \in Tasks : tres[i] # "pending" })
    /\ (AllMode /\ AggState \in {"Merging", "Done"}) =>
          /\ \A i \in DOMAIN urls : FetchesOf(urls[i]) = Occurrences(urls[i])
          /\ BagCardinality(fetchLog) = Len(urls)
    /\ config.Mode = "single" =>
          /\ BagCardinality(fetchLog) <= 1
          /\ (AggReturned \/ pc = "merging") => fetchLog = SetToBag({config.SingleURL})

C9_Witness ==
    /\ AllMode /\ pc = "merging"
    /\ Len(urls) = 2
    /\ urls[1] = urls[2]
    /\ FetchesOf(urls[1]) = 2
    /\ tres[1] = "err" /\ tres[2] = "ok"

\* the steps of the aggregator's state machine
AggSteps == { <<"Idle", "Fetching">>, <<"Fetching", "Merging">>, <<"Merging", "Done">>,
              <<"Idle", "Failed">> }

\* C10: in all mode, with every dispatched fetch returning, aggregateFeeds
\* reaches Done: the aggregator only ever moves Idle -> Fetching -> Merging ->
\* Done, one step at a time and never backwards (or Idle -> Failed when the
\* input file cannot be read); once the config is accepted and the file is
\* readable it eventually is in Done; and when every fetch failed, Done holds
\* an empty feed and no error.
C10_ReachesDone ==
    /\ [][AllMode => (AggState' = AggState \/ <<AggState, AggState'>> \in AggSteps)]_vars
    /\ (AllMode /\ cfgErr = Nil /\ file.status = "ok") ~> (AggState = "Done")
    /\ [](  (AllMode /\ AggState = "Done" /\ \A i \in DOMAIN tres : tres[i] = "err")
             => (feed = [Title |-> Title, Items |-> <<>>] /\ aggErr = Nil) )

C10_Witness ==
    /\ AllMode /\ AggState = "Done" /\ pc = "output"
    /\ Len(urls) = MaxLines
    /\ \A i \in DOMAIN tres : tres[i] = "err"
    /\ feed = [Title |-> Title, Items |-> <<>>]

\* the goroutines between mu.Lock() and mu.Unlock()
InCritical == { i \in Tasks : tpc[i] \in {"read", "append", "unlock"} }

\* s holds t as a block: the elements of t, adjacent and in t's order
HoldsBlock(s, t) ==
    \E k \in 0..(Len(s) - Len(t)) : SubSeq(s, k + 1, k + Len(t)) = t

\* C11: the accumulator is updated under mutual exclusion and loses nothing.
\* Never are two goroutines between mu.Lock() and mu.Unlock(), and the one
\* that is there holds the mutex.  Once wg.Wait() has returned, allItems holds
\* exactly the items of the successful fetches: every such item once, none
\* lost, none twice, none of a failed fetch; and the items of each feed stand
\* together in allItems, in the order the feed had them.
C11_ExclusiveAppend ==
    AllMode =>
        /\ Cardinality(InCritical) <= 1
        /\ \A i \in InCritical : mu = i
        /\ pc = "merging" =>
              /\ Len(allItems) = TotalFetched
              /\ { allItems[k] : k \in DOMAIN allItems } = Fetched
              /\ \A k \in DOMAIN allItems : tres[allItems[k].src] = "ok"
              /\ \A i \in OkFetches : HoldsBlock(allItems, titems[i])

C11_Witness ==
    /\ AllMode /\ pc = "merging"
    /\ Len(urls) >= 2
    /\ tres[1] = "ok" /\ Len(titems[1]) = 2
    /\ tres[2] = "ok" /\ Len(titems[2]) = 1
    /\ allItems = titems[2] \o titems[1]

Elems(s) == { s[k] : k \in DOMAIN s }
Dates(s) == [k \in DOMAIN s |-> s[k].Created]
Pos(s, x) == CHOOSE k \in DOMAIN s : s[k] = x

\* what a stable sort by less makes of s: each element stands behind the
\* elements that are less than it and before the later ones that are not
RECURSIVE StableSort(_)
StableSort(s) ==
    IF s = <<>> THEN <<>>
    ELSE LET r == StableSort(Tail(s))
             n == Cardinality({ k \in DOMAIN r : less(r[k], Head(s)) })
         IN  SubSeq(r, 1, n) \o <<Head(s)>> \o SubSeq(r, n + 1, Len(r))

\* C12 as stated: the sort by Created is stable.  Two items of the returned
\* feed with equal Created stand in the order in which they were appended to
\* allItems, so the returned items are exactly the first config.Count items
\* of the stable sort of allItems as it stood when the barrier was passed.
C12_StableSort ==
    feed # NoFeed =>
        /\ \A p, q \in DOMAIN feed.Items :
              (p < q /\ feed.Items[p].Created = feed.Items[q].Created)
                  => Pos(appended, feed.Items[p]) < Pos(appended, feed.Items[q])
        /\ feed.Items = truncate(StableSort(appended), config.Count)

\* C12, amended: the sort is sort.Slice, which need not be stable.  For the
\* allItems handed to it, the Created values of the returned items, position
\* by position, are those of the first config.Count items of the stable sort;
\* the returned items are items of allItems, none twice; and an item left out
\* is never later than a returned one.  Which of several items with equal
\* Created comes first, and which of them survive the truncation, is not
\* fixed by the order of the appends.
C12_SortedUpToTies ==
    feed # NoFeed =>
        /\ Dates(feed.Items) = Dates(truncate(StableSort(appended), config.Count))
        /\ ItemsOf(feed) \subseteq Elems(appended)
        /\ Cardinality(ItemsOf(feed)) = Len(feed.Items)
        /\ \A x \in Elems(appended) \ ItemsOf(feed) : \A y \in ItemsOf(feed) :
              x.Created <= y.Created

\* two items with equal Created returned against the order of their appends
C12_Witness ==
    /\ AllMode /\ pc = "output"
    /\ \E p, q \in DOMAIN feed.Items :
          /\ p < q
          /\ feed.Items[p].Created = feed.Items[q].Created
          /\ Pos(appended, feed.Items[p]) > Pos(appended, feed.Items[q])

\* no two fetched items have the same Created
DistinctDates == \A x, y \in Fetched : x # y => x.Created # y.Created

\* the items of S, the latest first (one arrangement when the Created differ)
RECURSIVE LatestFirst(_)
LatestFirst(S) ==
    IF S = {} THEN <<>>
    ELSE LET m == CHOOSE x \in S : \A y \in S : x.Created >= y.Created
         IN  <<m>> \o LatestFirst(S \ {m})

\* C13: interleaving independence.  In all mode, when the fetched items have
\* pairwise distinct Created, the returned items are the first config.Count
\* of the fetched items arranged latest first: a sequence fixed by the URL
\* list, the outcome of each fetch and config.Count alone, hence the same in
\* whatever order the goroutines completed and appended.
C13_InterleavingIndependent ==
    (AllMode /\ feed # NoFeed /\ DistinctDates) =>
        feed.Items = truncate(LatestFirst(Fetched), config.Count)

\* goroutine 1 appended its two items first, goroutine 2 its later item
\* behind them, and the result is cut: the returned items start with the
\* item appended last
C13_Witness ==
    /\ AllMode /\ pc = "output" /\ DistinctDates
    /\ Len(urls) >= 2
    /\ tres[1] = "ok" /\ Len(titems[1]) = 2
    /\ tres[2] = "ok" /\ Len(titems[2]) = 1
    /\ appended = titems[1] \o titems[2]
    /\ Len(feed.Items) = 2
    /\ feed.Items[1] = titems[2][1]


====
